---- MODULE Spec2Model ----
(***************************************************************************)
(* Model of theCINE-v2:                                                    *)
(*   - backend/movieInfo/movieBuilder.js : landingPageMovies,              *)
(*     getRandomPopularMovies, createMovieObjectFromID, buildMovieObject   *)
(*   - getYoutubeId (the scraper, listed at the end of backend/index.js)   *)
(*   - frontend/src/App.tsx : loading / delayed-message / search state     *)
(*                                                                         *)
(* Three specifications share the variables:                               *)
(*   Spec        one call of landingPageMovies or getRandomPopularMovies   *)
(*   SpecYoutube one call of getYoutubeId against a page                   *)
(*   SpecApp     the App component: mount, timer, searches, responses      *)
(*                                                                         *)
(* JavaScript runs each callback to completion, so an action is one        *)
(* synchronous stretch of code between two awaits (with the microtasks     *)
(* it triggers), and the interleaving is the order in which the network    *)
(* answers.                                                                *)
(***************************************************************************)
EXTENDS Integers, Sequences, FiniteSets, TLC

VARIABLES
    \* ---- backend (movieBuilder.js) ----
    pc,            \* position of the top-level call
    op,            \* which exported function was called
    trending,      \* what getTrendingMovies answers (catalog pool)
    topRated,      \* what getTopRatedMovies answers (catalog pool)
    store,         \* ids of the rows of table movies in movies.db
    topMovies,     \* local: rows read by the query (possibly shuffled)
    randomIds,     \* local: ids picked by getRandomPopularMovies
    shuffled,      \* local: the inputs of the fan-out, in order
    tasks,         \* one promise per input of the fan-out
    result,        \* value the call resolved with
    dbOpen,        \* the Database handle of this call is open
    openConns,     \* number of open connections to movies.db
    connsBefore,   \* openConns when the call started
    \* ---- getYoutubeId ----
    ypc,           \* position in getYoutubeId
    yget,          \* state of the promise of axios.get
    html,          \* page the search endpoint serves
    yresult,       \* value getYoutubeId returned
    \* ---- frontend (App.tsx) ----
    mounted,
    loading,
    showDelayedMessage,
    isInitialLoad,
    timerArmed,
    timerDue,
    now,
    searchQuery,
    movies,
    issued,
    outstanding,
    anyFailed,
    messageShown,
    everNotLoading,
    loadingSince

backendVars == <<pc, op, trending, topRated, store, topMovies, randomIds,
                 shuffled, tasks, result, dbOpen, openConns, connsBefore>>
youtubeVars == <<ypc, yget, html, yresult>>
appVars == <<mounted, loading, showDelayedMessage, isInitialLoad, timerArmed,
             timerDue, now, searchQuery, movies, issued, outstanding,
             anyFailed, messageShown, everNotLoading, loadingSince>>
vars == <<backendVars, youtubeVars, appVars>>

----------------------------------------------------------------------------
(* Bounds.  The sample sizes and the row limit stand for the literals of   *)
(* the source (8, 2, 10, 1000), scaled down so that pools and stores both  *)
(* shorter and longer than them can be enumerated.                         *)

\* getRandomItems(trending, 8): scaled
TrendingCount == 2
\* getRandomItems(topRated, 2): the source takes fewer top-rated movies
\* than trending ones (2 against 8); the model takes half as many
TopRatedCount == TrendingCount \div 2
\* slice(0, 10) in getRandomPopularMovies: scaled
PopularCount == 2
\* LIMIT 1000 of the query: scaled
RowLimit == 2
\* connections other callers may hold when the call starts
MaxOtherConns == 1

MaxTrending == TrendingCount + 1
MaxTopRated == TopRatedCount + 1
MaxRows == RowLimit + 1

Min(a, b) == IF a < b THEN a ELSE b

----------------------------------------------------------------------------
(* The catalog: records, and what the external services answer.            *)

NoMovie == [id |-> 0, title |-> 0]
NoVideo == <<"null">>
NoProvider == <<"none">>
NoResult == <<"pending">>

TitleOf(i) == 100 + i
CatalogRecord(i) == [id |-> i, title |-> TitleOf(i)]

\* The two pools overlap in one movie: a title can be trending and top rated.
TrendingPool(n) == [k \in 1..n |-> CatalogRecord(k)]
TopRatedPool(n) == [k \in 1..n |-> CatalogRecord(MaxTrending - 1 + k)]

\* popularity column of row i: all different, not ordered like the ids
Popularity(i) == IF i % 2 = 0 THEN 100 + i ELSE 50 - i

\* the search query buildMovieObject sends: `${movie.title} trailer`
TrailerQuery(movie) == <<movie.title, "trailer">>
\* the token the search page holds for a query, when it holds one
VideoFor(query) == <<"video", query[1]>>
\* what getStreamingProvider answers for an id
ProviderFor(id) == <<"provider", id>>
\* what getYoutubeId may resolve with for a query: null when the page
\* holds no token (SpecYoutube explores the pages themselves)
YoutubeAnswers(query) == {NoVideo, VideoFor(query)}
\* what getMovieById resolves with
getMovieById(id) == CatalogRecord(id)

----------------------------------------------------------------------------
(* JavaScript helpers.                                                     *)

\* Array.prototype.slice(start, end) on a sequence (0-based, end exclusive)
Slice(s, start, end) == SubSeq(s, start + 1, Min(end, Len(s)))

Perms(n) == {p \in [1..n -> 1..n] : \A i, j \in 1..n : p[i] = p[j] => i = j}

\* [...array].sort(() => 0.5 - Math.random()): the comparator is random, so
\* the order that comes out is any order of the same elements.
shuffleArray(array) ==
    {[i \in 1..Len(array) |-> array[p[i]]] : p \in Perms(Len(array))}

\* mutant: the slice takes one element too many
getRandomItems_OffByOne(array, count) ==
    {Slice(s, 0, count + 1) : s \in shuffleArray(array)}

\* getRandomItems(array, count): shuffle a copy, keep the first count
getRandomItems(array, count) ==
    {Slice(s, 0, count) : s \in shuffleArray(array)}

\* extractMovieInfo(movie) with youtubeId and streamingProvider added
MovieObject(t) ==
    [id |-> t.movie.id, title |-> t.movie.title,
     youtubeId |-> t.youtubeId, streamingProvider |-> t.streamingProvider]

\* buildMovieObject(movie) up to its first await: getYoutubeId is issued
buildMovieObject(movie) ==
    [pc |-> "yt", movie |-> movie,
     youtubeId |-> NoVideo, streamingProvider |-> NoProvider]

\* createMovieObjectFromID(tmdbId) up to its first await: getMovieById issued
createMovieObjectFromID(tmdbId) ==
    [pc |-> "byId", movie |-> NoMovie,
     youtubeId |-> NoVideo, streamingProvider |-> NoProvider]

\* mutant: waits for every promise to settle and keeps what there is
PromiseAll_Settled(ts) ==
    IF \A i \in 1..Len(ts) : ts[i].pc \in {"done", "failed"}
    THEN "fulfilled" ELSE "join"

\* Promise.all: rejects with the first rejection, fulfils when all fulfilled
PromiseAll(ts) ==
    IF \E i \in 1..Len(ts) : ts[i].pc = "failed" THEN "rejected"
    ELSE IF \A i \in 1..Len(ts) : ts[i].pc = "done" THEN "fulfilled"
    ELSE "join"

\* mutant: the values are collected in the opposite order
JoinValues_Reversed(ts) ==
    [i \in 1..Len(ts) |-> MovieObject(ts[Len(ts) + 1 - i])]

\* the array Promise.all fulfils with: values[i] is promise i's value
JoinValues(ts) == [i \in 1..Len(ts) |-> MovieObject(ts[i])]

\* the continuation of `await Promise.all(...)` and the return after it
Settle(ts) ==
    /\ pc' = PromiseAll(ts)
    /\ result' = IF PromiseAll(ts) = "fulfilled" THEN JoinValues(ts) ELSE result

\* a promise of the fan-out settles while the caller may have been rejected
SettleIfJoining(ts) ==
    IF pc = "join" THEN Settle(ts) ELSE UNCHANGED <<pc, result>>

\* mutant: the query has no LIMIT
QueryRows_NoLimit(rows) ==
    LET n == Cardinality(rows)
        rank(r) == 1 + Cardinality({q \in rows : Popularity(q) > Popularity(r)})
    IN  [k \in 1..n |-> CHOOSE r \in rows : rank(r) = k]

\* SELECT * FROM movies ORDER BY popularity DESC LIMIT 1000
QueryRows(rows) ==
    LET n == Min(RowLimit, Cardinality(rows))
        rank(r) == 1 + Cardinality({q \in rows : Popularity(q) > Popularity(r)})
    IN  [k \in 1..n |-> CHOOSE r \in rows : rank(r) = k]

----------------------------------------------------------------------------
(* landingPageMovies                                                       *)

unchangedLocals == UNCHANGED <<trending, topRated, store, op>>
unchangedDb == UNCHANGED <<dbOpen, openConns, connsBefore>>

\* the call: getTrendingMovies is issued
CallLanding ==
    /\ pc = "idle" /\ op = "landing"
    /\ pc' = "awaitTrending"
    /\ connsBefore' = openConns
    /\ UNCHANGED <<topMovies, randomIds, shuffled, tasks, result, dbOpen, openConns>>
    /\ unchangedLocals

\* getTrendingMovies resolves; getTopRatedMovies is issued
TrendingResolves ==
    /\ pc = "awaitTrending"
    /\ pc' = "awaitTopRated"
    /\ UNCHANGED <<topMovies, randomIds, shuffled, tasks, result>>
    /\ unchangedLocals /\ unchangedDb

TrendingRejects ==
    /\ pc = "awaitTrending"
    /\ pc' = "rejected"
    /\ UNCHANGED <<topMovies, randomIds, shuffled, tasks, result>>
    /\ unchangedLocals /\ unchangedDb

\* getTopRatedMovies resolves: sample, combine, shuffle, start the fan-out
TopRatedResolves ==
    /\ pc = "awaitTopRated"
    /\ \E trendingSample \in getRandomItems(trending, TrendingCount),
          topRatedSample \in getRandomItems(topRated, TopRatedCount) :
         \E sh \in shuffleArray(trendingSample \o topRatedSample) :
            /\ shuffled' = sh
            /\ tasks' = [i \in 1..Len(sh) |-> buildMovieObject(sh[i])]
    /\ Settle(tasks')
    /\ UNCHANGED <<topMovies, randomIds>>
    /\ unchangedLocals /\ unchangedDb

TopRatedRejects ==
    /\ pc = "awaitTopRated"
    /\ pc' = "rejected"
    /\ UNCHANGED <<topMovies, randomIds, shuffled, tasks, result>>
    /\ unchangedLocals /\ unchangedDb

----------------------------------------------------------------------------
(* getRandomPopularMovies: lines 89-104 run without an await; they are     *)
(* split at the statements that can throw or that touch the connection.    *)

\* new Database("./movieInfo/movies.db")
PopularOpen ==
    /\ pc = "idle" /\ op = "popular"
    /\ connsBefore' = openConns
    /\ dbOpen' = TRUE
    /\ openConns' = openConns + 1
    /\ pc' = "opened"
    /\ UNCHANGED <<topMovies, randomIds, shuffled, tasks, result>>
    /\ unchangedLocals

\* new Database throws (no file, not a database): nothing was opened
PopularOpenThrows ==
    /\ pc = "idle" /\ op = "popular"
    /\ connsBefore' = openConns
    /\ pc' = "rejected"
    /\ UNCHANGED <<topMovies, randomIds, shuffled, tasks, result, dbOpen, openConns>>
    /\ unchangedLocals

\* db.prepare(...).all()
PopularQuery ==
    /\ pc = "opened"
    /\ topMovies' = QueryRows(store)
    /\ pc' = "queried"
    /\ UNCHANGED <<randomIds, shuffled, tasks, result>>
    /\ unchangedLocals /\ unchangedDb

\* prepare or all throws: the exception leaves the function at once
PopularQueryThrows ==
    /\ pc = "opened"
    /\ pc' = "rejected"
    /\ UNCHANGED <<topMovies, randomIds, shuffled, tasks, result>>
    /\ unchangedLocals /\ unchangedDb

\* topMovies.sort(random) in place, slice(0, 10), map to the ids
PopularPick ==
    /\ pc = "queried"
    /\ \E s \in shuffleArray(topMovies) :
          /\ topMovies' = s
          /\ randomIds' = Slice(s, 0, PopularCount)
    /\ pc' = "picked"
    /\ UNCHANGED <<shuffled, tasks, result>>
    /\ unchangedLocals /\ unchangedDb

\* mutant: db.close() is left for after the fan-out
PopularClose_Late ==
    /\ pc = "picked"
    /\ pc' = "closed"
    /\ UNCHANGED <<topMovies, randomIds, shuffled, tasks, result>>
    /\ unchangedLocals /\ unchangedDb

\* db.close()
PopularClose ==
    /\ pc = "picked"
    /\ dbOpen' = FALSE
    /\ openConns' = openConns - 1
    /\ pc' = "closed"
    /\ UNCHANGED <<topMovies, randomIds, shuffled, tasks, result, connsBefore>>
    /\ unchangedLocals

\* randomIds.map((id) => createMovieObjectFromID(id)) under Promise.all
PopularFanOut ==
    /\ pc = "closed"
    /\ tasks' = [i \in 1..Len(randomIds) |-> createMovieObjectFromID(randomIds[i])]
    /\ Settle(tasks')
    /\ UNCHANGED <<topMovies, randomIds, shuffled>>
    /\ unchangedLocals /\ unchangedDb

----------------------------------------------------------------------------
(* The promises of the fan-out: createMovieObjectFromID, buildMovieObject  *)

taskFrame ==
    /\ UNCHANGED <<topMovies, randomIds, shuffled>>
    /\ unchangedLocals /\ unchangedDb

\* getMovieById resolves; buildMovieObject(movie) starts: getYoutubeId issued
MovieByIdResolves(i) ==
    /\ tasks[i].pc = "byId"
    /\ tasks' = [tasks EXCEPT ![i] = buildMovieObject(getMovieById(randomIds[i]))]
    /\ SettleIfJoining(tasks')
    /\ taskFrame

MovieByIdRejects(i) ==
    /\ tasks[i].pc = "byId"
    /\ tasks' = [tasks EXCEPT ![i].pc = "failed"]
    /\ SettleIfJoining(tasks')
    /\ taskFrame

\* line 33 resumes: youtubeId is bound, then getStreamingProvider is issued
YoutubeResolves(i) ==
    /\ tasks[i].pc = "yt"
    /\ \E v \in YoutubeAnswers(TrailerQuery(tasks[i].movie)) :
          tasks' = [tasks EXCEPT ![i].youtubeId = v, ![i].pc = "sp"]
    /\ SettleIfJoining(tasks')
    /\ taskFrame

\* getYoutubeId rejects: buildMovieObject rejects at line 33
YoutubeRejects(i) ==
    /\ tasks[i].pc = "yt"
    /\ tasks' = [tasks EXCEPT ![i].pc = "failed"]
    /\ SettleIfJoining(tasks')
    /\ taskFrame

\* line 34 resumes: the movie object is returned
ProviderResolves(i) ==
    /\ tasks[i].pc = "sp"
    /\ tasks' = [tasks EXCEPT ![i].streamingProvider = ProviderFor(tasks[i].movie.id),
                              ![i].pc = "done"]
    /\ SettleIfJoining(tasks')
    /\ taskFrame

ProviderRejects(i) ==
    /\ tasks[i].pc = "sp"
    /\ tasks' = [tasks EXCEPT ![i].pc = "failed"]
    /\ SettleIfJoining(tasks')
    /\ taskFrame

----------------------------------------------------------------------------
(* Initial states.  Each specification starts its own part and parks the   *)
(* other two.                                                              *)

ParkedBackend ==
    /\ pc = "idle" /\ op = "none"
    /\ trending = <<>> /\ topRated = <<>> /\ store = {}
    /\ topMovies = <<>> /\ randomIds = <<>> /\ shuffled = <<>> /\ tasks = <<>>
    /\ result = NoResult
    /\ dbOpen = FALSE /\ openConns = 0 /\ connsBefore = 0

ParkedYoutube ==
    /\ ypc = "idle" /\ yget = "none" /\ html = <<>> /\ yresult = NoResult

ParkedApp ==
    /\ mounted = FALSE /\ loading = TRUE /\ showDelayedMessage = FALSE
    /\ isInitialLoad = TRUE /\ timerArmed = FALSE /\ timerDue = 0 /\ now = 0
    /\ searchQuery = <<>> /\ movies = 0 /\ issued = 0 /\ outstanding = {}
    /\ anyFailed = FALSE /\ messageShown = FALSE /\ everNotLoading = FALSE
    /\ loadingSince = 0

\* Before the call: what the catalog will answer, or what the store holds.
InitBackend ==
    /\ pc = "idle"
    /\ op \in {"landing", "popular"}
    /\ \E nT \in 0..MaxTrending, nR \in 0..MaxTopRated :
          /\ trending = IF op = "landing" THEN TrendingPool(nT) ELSE <<>>
          /\ topRated = IF op = "landing" THEN TopRatedPool(nR) ELSE <<>>
    /\ \E rows \in SUBSET (1..MaxRows) :
          store = IF op = "popular" THEN rows ELSE {}
    /\ \E n \in 0..MaxOtherConns :
          openConns = IF op = "popular" THEN n ELSE 0
    /\ connsBefore = openConns
    /\ topMovies = <<>> /\ randomIds = <<>> /\ shuffled = <<>> /\ tasks = <<>>
    /\ result = NoResult
    /\ dbOpen = FALSE

Init == InitBackend /\ ParkedYoutube /\ ParkedApp

TaskStep ==
    \E i \in 1..Len(tasks) :
        \/ MovieByIdResolves(i)
        \/ MovieByIdRejects(i)
        \/ YoutubeResolves(i)
        \/ YoutubeRejects(i)
        \/ ProviderResolves(i)
        \/ ProviderRejects(i)

Next ==
    \/ (CallLanding /\ UNCHANGED <<youtubeVars, appVars>>)
    \/ (TrendingResolves /\ UNCHANGED <<youtubeVars, appVars>>)
    \/ (TrendingRejects /\ UNCHANGED <<youtubeVars, appVars>>)
    \/ (TopRatedResolves /\ UNCHANGED <<youtubeVars, appVars>>)
    \/ (TopRatedRejects /\ UNCHANGED <<youtubeVars, appVars>>)
    \/ (PopularOpen /\ UNCHANGED <<youtubeVars, appVars>>)
    \/ (PopularOpenThrows /\ UNCHANGED <<youtubeVars, appVars>>)
    \/ (PopularQuery /\ UNCHANGED <<youtubeVars, appVars>>)
    \/ (PopularQueryThrows /\ UNCHANGED <<youtubeVars, appVars>>)
    \/ (PopularPick /\ UNCHANGED <<youtubeVars, appVars>>)
    \/ (PopularClose /\ UNCHANGED <<youtubeVars, appVars>>)
    \/ (PopularFanOut /\ UNCHANGED <<youtubeVars, appVars>>)
    \/ (TaskStep /\ UNCHANGED <<youtubeVars, appVars>>)

Spec == Init /\ [][Next]_vars

----------------------------------------------------------------------------
(* Properties of the backend.                                              *)

Ids(s) == {s[i].id : i \in 1..Len(s)}
Distinct(s, I) == \A i, j \in I : s[i].id = s[j].id => i = j
Failed == {i \in 1..Len(tasks) : tasks[i].pc = "failed"}
Done == {i \in 1..Len(tasks) : tasks[i].pc = "done"}
Waiting == {i \in 1..Len(tasks) : tasks[i].pc \in {"byId", "yt", "sp"}}

\* C1: when landingPageMovies resolves it returns exactly
\* min(TrendingCount, |trending|) + min(TopRatedCount, |topRated|) movies,
\* which split into that many elements of the trending pool and that many
\* of the top-rated pool, no element of a pool taken twice.
C1_LandingCount ==
    (op = "landing" /\ pc = "fulfilled") =>
        LET nT == Min(TrendingCount, Len(trending))
            nR == Min(TopRatedCount, Len(topRated))
            all == 1..Len(result)
        IN  /\ Len(result) = nT + nR
            /\ \E T \in SUBSET all :
                  /\ Cardinality(T) = nT
                  /\ Distinct(result, T)
                  /\ {result[i].id : i \in T} \subseteq Ids(trending)
                  /\ Distinct(result, all \ T)
                  /\ {result[i].id : i \in all \ T} \subseteq Ids(topRated)

\* C1 witness: both pools longer than their sample, and the call resolved
C1_Witness ==
    /\ op = "landing" /\ pc = "fulfilled"
    /\ Len(trending) > TrendingCount /\ Len(topRated) > TopRatedCount
    /\ Len(result) = TrendingCount + TopRatedCount

\* C2: landingPageMovies never returns a list while an enrichment of its
\* fan-out has failed: with a failed enrichment the call is rejected and
\* has no result.
C2_FailWholeBatch ==
    (op = "landing" /\ Failed # {}) => (pc = "rejected" /\ result = NoResult)

\* C2 witness: one enrichment failed, the others succeeded
C2_Witness ==
    /\ op = "landing" /\ Cardinality(Failed) = 1
    /\ Cardinality(Done) = Len(tasks) - 1 /\ Len(tasks) > 1

\* C3: the i-th returned movie is the enrichment of the i-th input, and its
\* youtubeId and streamingProvider answer the calls made for that movie.
C3_IndexCorrelated ==
    (pc = "fulfilled") =>
        /\ Len(result) = Len(tasks)
        /\ \A i \in 1..Len(result) :
              /\ op = "landing" => /\ Len(shuffled) = Len(result)
                                   /\ result[i].id = shuffled[i].id
                                   /\ result[i].title = shuffled[i].title
              /\ op = "popular" => /\ Len(randomIds) = Len(result)
                                   /\ result[i].id = randomIds[i]
              /\ result[i].youtubeId \in
                    YoutubeAnswers(<<TitleOf(result[i].id), "trailer">>)
              /\ result[i].streamingProvider = ProviderFor(result[i].id)

\* C3 witness: a resolved fan-out of two different movies or more
C3_Witness ==
    /\ pc = "fulfilled" /\ Len(result) >= 2
    /\ result[1].id # result[Len(result)].id
    /\ result[1].youtubeId # NoVideo

\* C4: a query failure after the connection was opened leaves no connection
\* behind: when getRandomPopularMovies has returned or rejected, the number
\* of open connections is not greater than before the call.
C4_NoLeakOnQueryFailure ==
    (op = "popular" /\ pc \in {"fulfilled", "rejected"}) => openConns <= connsBefore

\* C5: while an enrichment call of getRandomPopularMovies is outstanding or
\* has failed, the connection this call opened is closed.
C5_ClosedBeforeEnrichment ==
    (op = "popular" /\ (Waiting # {} \/ Failed # {})) =>
        (~dbOpen /\ openConns = connsBefore)

\* C5 witness: an enrichment has failed, another is still outstanding
C5_Witness ==
    /\ op = "popular" /\ Failed # {} /\ Waiting # {} /\ pc = "rejected"

spIssued(t) == t.pc \in {"sp", "done"}
C8_ConcurrentCalls ==
    \A i \in 1..Len(tasks) : tasks[i].pc = "yt" => spIssued(tasks[i])

----------------------------------------------------------------------------
(* getYoutubeId.  A page is a sequence of symbols: "Q" is the double       *)
(* quote, "K" the text videoId": between the quotes of the field marker,   *)
(* "a" and "b" two characters of the class [a-zA-Z0-9_-].                  *)

\* {11} of the pattern
TokenLen == 11
\* pages are built from at most this many pieces
MaxChunks == 5

\* "videoId":"
Marker == <<"Q", "K", "Q">>
ClassChars == {"a", "b"}

\* the pattern "videoId":"([a-zA-Z0-9_-]{11})" matches at position i of h
MatchAt(h, i) ==
    /\ i >= 1
    /\ i + Len(Marker) + TokenLen <= Len(h)
    /\ \A j \in 1..Len(Marker) : h[i + j - 1] = Marker[j]
    /\ \A j \in 1..TokenLen : h[i + Len(Marker) + j - 1] \in ClassChars
    /\ h[i + Len(Marker) + TokenLen] = "Q"

\* the capture group of a match at i
Capture(h, i) == SubSeq(h, i + Len(Marker), i + Len(Marker) + TokenLen - 1)

\* mutant: the pattern does not ask for the closing quote
regexMatch_Unanchored(h) ==
    LET ok(i) == /\ i + Len(Marker) + TokenLen - 1 <= Len(h)
                 /\ \A j \in 1..Len(Marker) : h[i + j - 1] = Marker[j]
                 /\ \A j \in 1..TokenLen : h[i + Len(Marker) + j - 1] \in ClassChars
        at == {i \in 1..Len(h) : ok(i)}
    IN  IF at = {} THEN NoVideo
        ELSE Capture(h, CHOOSE i \in at : \A j \in at : i <= j)

\* html.match(/.../) without the g flag: the leftmost match, or null;
\* the value is match[1], or null
regexMatch(h) ==
    LET at == {i \in 1..Len(h) : MatchAt(h, i)}
    IN  IF at = {} THEN NoVideo
        ELSE Capture(h, CHOOSE i \in at : \A j \in at : i <= j)

\* a marker followed by TokenLen - 1 class characters
MarkerRun == Marker \o [i \in 1..(TokenLen - 1) |-> "a"]
PageChunks == {MarkerRun, <<"Q">>, <<"a">>, <<"b">>}

RECURSIVE PagesUpTo(_)
PagesUpTo(n) ==
    IF n = 0 THEN {<<>>}
    ELSE LET shorter == PagesUpTo(n - 1)
         IN  shorter \cup {p \o c : p \in shorter, c \in PageChunks}

\* before the call: the page the search endpoint will serve
YoutubePage ==
    /\ ypc = "idle" /\ yget = "none" /\ yresult = NoResult
    /\ html \in PagesUpTo(MaxChunks)

InitYoutube == ParkedBackend /\ YoutubePage /\ ParkedApp

\* the call: the URL is built and axios.get(searchUrl) is issued
YoutubeCall ==
    /\ ypc = "idle"
    /\ ypc' = "awaiting" /\ yget' = "pending"
    /\ UNCHANGED <<html, yresult>>

\* the GET resolves with the page: match, then return null or match[1]
YoutubeGetResolves ==
    /\ ypc = "awaiting"
    /\ yget' = "ok"
    /\ yresult' = regexMatch(html)
    /\ ypc' = "returned"
    /\ UNCHANGED html

\* the GET rejects: nothing catches it, getYoutubeId rejects
YoutubeGetRejects ==
    /\ ypc = "awaiting"
    /\ yget' = "error"
    /\ ypc' = "rejected"
    /\ UNCHANGED <<html, yresult>>

NextYoutube ==
    \/ (YoutubeCall /\ UNCHANGED <<backendVars, appVars>>)
    \/ (YoutubeGetResolves /\ UNCHANGED <<backendVars, appVars>>)
    \/ (YoutubeGetRejects /\ UNCHANGED <<backendVars, appVars>>)

SpecYoutube == InitYoutube /\ [][NextYoutube]_vars

\* the places of the page where the marker, TokenLen class characters and
\* a closing quote stand
TokenPlaces ==
    {i \in 1..Len(html) :
        /\ i + 3 + TokenLen <= Len(html)
        /\ SubSeq(html, i, i + 2) = <<"Q", "K", "Q">>
        /\ \A j \in (i + 3)..(i + 2 + TokenLen) : html[j] \in {"a", "b"}
        /\ html[i + 3 + TokenLen] = "Q"}

\* C7: after a successful GET getYoutubeId has returned: null when the page
\* holds no token, else the TokenLen characters of the leftmost token;
\* after a failed GET it has rejected and returned nothing.
C7_AbsentVersusFailure ==
    /\ yget = "ok" =>
          /\ ypc = "returned"
          /\ TokenPlaces = {} => yresult = NoVideo
          /\ TokenPlaces # {} =>
                \E i \in TokenPlaces :
                    /\ \A j \in TokenPlaces : i <= j
                    /\ yresult = SubSeq(html, i + 3, i + 2 + TokenLen)
                    /\ Len(yresult) = TokenLen
    /\ yget = "error" => (ypc = "rejected" /\ yresult = NoResult)

\* C7 witness: a page with two different tokens, the first one returned
C7_Witness ==
    /\ ypc = "returned"
    /\ \E i, j \in TokenPlaces :
          /\ i < j
          /\ SubSeq(html, i + 3, i + 2 + TokenLen) # SubSeq(html, j + 3, j + 2 + TokenLen)
          /\ yresult = SubSeq(html, i + 3, i + 2 + TokenLen)

----------------------------------------------------------------------------
(* App.tsx.  A callback (a response handler, the timer, an input event)    *)
(* runs with the render it causes and the effects of that render: React    *)
(* runs the effects of a commit before it renders the next update.         *)
(* Time is counted in seconds.  Request k answers with the list k.         *)

\* setTimeout(..., 5000), in seconds
DelaySeconds == 5
\* the clock stops here
MaxTime == 7
\* trending plus the searches
MaxRequests == 3
\* characters typed into the search box
MaxQueryLen == 1

Queries == UNION {[1..n -> {" ", "a"}] : n \in 0..MaxQueryLen}

\* String.prototype.trim
RECURSIVE Trim(_)
Trim(q) ==
    IF q = <<>> THEN q
    ELSE IF Head(q) = " " THEN Trim(Tail(q))
    ELSE IF q[Len(q)] = " " THEN Trim(SubSeq(q, 1, Len(q) - 1))
    ELSE q

\* lines 135-137: the message is in the tree under loading and the flag
Render(isLoading, showMessage) == isLoading /\ showMessage

\* mutant: the timer is started whenever loading is true
DelayedMessageEffect_EveryLoad(isLoading) ==
    /\ timerArmed' = isLoading
    /\ timerDue' = IF isLoading THEN now + DelaySeconds ELSE timerDue
    /\ showDelayedMessage' = IF ~isLoading THEN FALSE ELSE showDelayedMessage
    /\ isInitialLoad' = IF ~isLoading THEN FALSE ELSE isInitialLoad

\* the effect on [loading], lines 57-72, run for a render with loading =
\* isLoading: the cleanup of the previous run clears its timer, then the body
DelayedMessageEffect(isLoading) ==
    /\ timerArmed' = (isLoading /\ isInitialLoad)
    /\ timerDue' = IF isLoading /\ isInitialLoad THEN now + DelaySeconds ELSE timerDue
    /\ showDelayedMessage' = IF ~isLoading THEN FALSE ELSE showDelayedMessage
    /\ isInitialLoad' = IF ~isLoading THEN FALSE ELSE isInitialLoad

\* setLoading(v), the render and the effects: an equal value changes nothing
SetLoading(v) ==
    /\ loading' = v
    /\ IF v # loading
       THEN /\ DelayedMessageEffect(v)
            /\ loadingSince' = IF v THEN now ELSE loadingSince
       ELSE UNCHANGED <<timerArmed, timerDue, showDelayedMessage, isInitialLoad,
                        loadingSince>>
    /\ messageShown' = Render(loading', showDelayedMessage')
    /\ everNotLoading' = (everNotLoading \/ ~v)

\* first render and its effects: fetch /api/trending, start the timer
Mount ==
    /\ ~mounted
    /\ mounted' = TRUE
    /\ issued' = 1
    /\ outstanding' = {1}
    /\ loading' = TRUE
    /\ DelayedMessageEffect(TRUE)
    /\ loadingSince' = now
    /\ messageShown' = Render(loading', showDelayedMessage')
    /\ UNCHANGED <<now, searchQuery, movies, anyFailed, everNotLoading>>

\* a second passes
Tick ==
    /\ mounted
    /\ now < MaxTime
    /\ now' = now + 1
    /\ UNCHANGED <<mounted, loading, showDelayedMessage, isInitialLoad, timerArmed,
                   timerDue, searchQuery, movies, issued, outstanding, anyFailed,
                   messageShown, everNotLoading, loadingSince>>

\* the timeout callback: setShowDelayedMessage(true)
TimerFires ==
    /\ timerArmed
    /\ now >= timerDue
    /\ timerArmed' = FALSE
    /\ showDelayedMessage' = TRUE
    /\ messageShown' = Render(loading, showDelayedMessage')
    /\ UNCHANGED <<mounted, loading, isInitialLoad, timerDue, now, searchQuery,
                   movies, issued, outstanding, anyFailed, everNotLoading,
                   loadingSince>>

\* onChange of the input
SetSearchQuery(q) ==
    /\ mounted
    /\ q # searchQuery
    /\ searchQuery' = q
    /\ UNCHANGED <<mounted, loading, showDelayedMessage, isInitialLoad, timerArmed,
                   timerDue, now, movies, issued, outstanding, anyFailed,
                   messageShown, everNotLoading, loadingSince>>

\* handleSearch with a query that is not blank: setLoading(true), POST /api/gpt
HandleSearch ==
    /\ mounted
    /\ Trim(searchQuery) # <<>>
    /\ issued < MaxRequests
    /\ SetLoading(TRUE)
    /\ issued' = issued + 1
    /\ outstanding' = outstanding \cup {issued + 1}
    /\ UNCHANGED <<mounted, now, searchQuery, movies, anyFailed>>

\* .then((data) => { setMovies(data); setLoading(false); }) of request k
ResponseArrives(k) ==
    /\ k \in outstanding
    /\ outstanding' = outstanding \ {k}
    /\ movies' = k
    /\ SetLoading(FALSE)
    /\ UNCHANGED <<mounted, now, searchQuery, issued, anyFailed>>

\* .catch((err) => { console.error(...); setLoading(false); }) of request k
ResponseFails(k) ==
    /\ k \in outstanding
    /\ outstanding' = outstanding \ {k}
    /\ anyFailed' = TRUE
    /\ SetLoading(FALSE)
    /\ UNCHANGED <<mounted, now, searchQuery, issued, movies>>

\* the useState and useRef initial values
AppConstructed ==
    /\ mounted = FALSE /\ loading = TRUE /\ showDelayedMessage = FALSE
    /\ isInitialLoad = TRUE /\ timerArmed = FALSE /\ timerDue = 0 /\ now = 0
    /\ searchQuery = <<>> /\ movies = 0 /\ issued = 0 /\ outstanding = {}
    /\ anyFailed = FALSE /\ messageShown = FALSE /\ everNotLoading = FALSE
    /\ loadingSince = 0

InitApp == ParkedBackend /\ ParkedYoutube /\ AppConstructed

NextApp ==
    \/ (Mount /\ UNCHANGED <<backendVars, youtubeVars>>)
    \/ (Tick /\ UNCHANGED <<backendVars, youtubeVars>>)
    \/ (TimerFires /\ UNCHANGED <<backendVars, youtubeVars>>)
    \/ (\E q \in Queries : SetSearchQuery(q) /\ UNCHANGED <<backendVars, youtubeVars>>)
    \/ (HandleSearch /\ UNCHANGED <<backendVars, youtubeVars>>)
    \/ (\E k \in 1..MaxRequests : ResponseArrives(k) /\ UNCHANGED <<backendVars, youtubeVars>>)
    \/ (\E k \in 1..MaxRequests : ResponseFails(k) /\ UNCHANGED <<backendVars, youtubeVars>>)

SpecApp == InitApp /\ [][NextApp]_vars

\* C9: the message is shown only while loading is true, only before loading
\* has been false for the first time, and only once loading has been true
\* for DelaySeconds; so never during a search made after the first load.
C9_MessageOnlyOnInitialLoad ==
    /\ messageShown => /\ loading
                       /\ ~everNotLoading
                       /\ now - loadingSince >= DelaySeconds
    /\ ~loading => ~messageShown
    /\ everNotLoading => (~isInitialLoad /\ ~timerArmed /\ ~showDelayedMessage)

\* C9 witness: a search after the first load has kept loading true for
\* DelaySeconds and the message is not shown
C9_Witness ==
    /\ everNotLoading /\ loading /\ outstanding # {}
    /\ now - loadingSince >= DelaySeconds
    /\ ~messageShown

\* C10: loading is true as long as a list request is outstanding, and once
\* all have answered the list shown is that of the request issued last.
C10_LatestRequestWins ==
    /\ outstanding # {} => loading
    /\ (mounted /\ outstanding = {} /\ ~anyFailed) => movies = issued

====
